---- MODULE Spec2Model ----
(***************************************************************************)
(* A model of py115/services.py: the OfflineService and StorageService     *)
(* facades over Client.execute_api, the two paginated listings and the     *)
(* upload negotiation of request_upload_data.                              *)
(***************************************************************************)
EXTENDS Integers, Sequences, FiniteSets, TLC

\* ------------------------------------------------------------------ bounds
MaxArgs == 2         \* longest *args tuple passed to a bulk operation
MaxColl == 3         \* most records a remote collection holds
MaxPage == 2         \* largest server page size

\* ------------------------------------------------------------ value space
None == [none |-> TRUE]

Ids == {1, 2}
DirIds == {"0", "7"}
Names == {"x.bin"}
Urls == {"cdn", "raw"}
UserAgent == "Mozilla/5.0"

\* The *args tuples tried: the first n ids, for every length up to MaxArgs.
ArgTuples == {[i \in 1..n |-> i] : n \in 0..MaxArgs}

Min(a, b) == IF a < b THEN a ELSE b

\* What has been observed of one enumeration: the items it yielded, the
\* positions it requested, the server-order indexes it was sent, and the
\* collection as it was at its first and at its latest page fetch.
NoHist == [out |-> <<>>, reqs |-> <<>>, fetched |-> <<>>,
           seen |-> FALSE, first |-> <<>>, last |-> <<>>,
           echoed |-> TRUE, total0 |-> 0]

\* The generator objects a caller holds, and the two listings.
Gens == {"g1", "g2"}
Kinds == {"file", "task"}

\* ---------------------------------------------------------------- state
VARIABLES
    op,            \* the facade invocation in progress or last finished
    built,         \* Spec objects constructed during that invocation
    calls,         \* execute_api calls issued during that invocation
    result,        \* what the latest execute_api call of it gave back
    ret,           \* its outcome: pending, return or raise
    pc,            \* position inside request_upload_data
    init_result,   \* request_upload_data's local init_result
    token_result,  \* request_upload_data's local token_result
    cookies,       \* the session's cookie jar
    exports,       \* export_cookies calls made during the invocation
    tickets,       \* every DownloadTicket handed out so far
    remote,        \* the remote collections: files of the directory, tasks
    pageSize,      \* the server's page size
    gen,           \* the generator objects returned by the list() calls
    hist           \* what has been observed of each generator's enumeration

facadeVars == <<op, built, calls, result, ret, pc, init_result, token_result,
                cookies, exports, tickets>>
listVars == <<remote, pageSize, gen, hist>>
vars == <<op, built, calls, result, ret, pc, init_result, token_result,
          cookies, exports, tickets, remote, pageSize, gen, hist>>

\* ---------------------------------------------------------- outcomes
Pending == [kind |-> "pending", value |-> None]
Return(v) == [kind |-> "return", value |-> v]
Raise(e) == [kind |-> "raise", value |-> [error |-> e]]

\* Client.execute_api fails with one of these (spec 4.1, 7).
ExecErrors == {"RemoteProtocolError", "TransportError"}

\* What one execute_api call can give back: one of the payloads, or a failure.
ExecOutcomes(payloads) ==
    {Return(p) : p \in payloads} \cup {Raise(e) : e \in ExecErrors}

\* A failed call propagates; otherwise the method returns v.
Propagate(res, v) == IF res.kind = "raise" THEN res ELSE Return(v)

\* ------------------------------------------------- session (Client)
\* The cookie jar: named cookies, each scoped to a domain, in jar order.
CookieValues == {"v1", "v2"}
InitCookies == <<[name |-> "UID", value |-> "v1", domain |-> "cdn"],
                 [name |-> "CID", value |-> "v1", domain |-> "cdn"],
                 [name |-> "SEID", value |-> "v1", domain |-> "web"]>>

\* The jars a response's Set-Cookie headers can leave behind: nothing is
\* set, or the remote rotates the session token (the jar's first cookie).
SetCookie(jar) ==
    {jar} \cup {[jar EXCEPT ![1].value = v] : v \in CookieValues}

\* Client.execute_api(spec): the call is logged in issue order.
ExecuteApi(log, spec) == Append(log, spec)

\* Client.export_cookies(url): the name/value pairs scoped to url, in order.
export_cookies(jar, url) ==
    LET Pick[i \in 0..Len(jar)] ==
            IF i = 0 THEN <<>>
            ELSE IF jar[i].domain = url
                 THEN Append(Pick[i - 1], <<jar[i].name, jar[i].value>>)
                 ELSE Pick[i - 1]
    IN Pick[Len(jar)]

\* The join of lines 190-192 with ';' for '; '.
JoinCookies_semicolon(pairs) ==
    LET J[i \in 0..Len(pairs)] ==
            IF i = 0 THEN ""
            ELSE IF i = 1 THEN pairs[1][1] \o "=" \o pairs[1][2]
            ELSE J[i - 1] \o ";" \o pairs[i][1] \o "=" \o pairs[i][2]
    IN J[Len(pairs)]

\* '; '.join(f'{k}={v}' for k, v in cookies.items())
JoinCookies(pairs) ==
    LET J[i \in 0..Len(pairs)] ==
            IF i = 0 THEN ""
            ELSE IF i = 1 THEN pairs[1][1] \o "=" \o pairs[1][2]
            ELSE J[i - 1] \o "; " \o pairs[i][1] \o "=" \o pairs[i][2]
    IN J[Len(pairs)]

\* ------------------------------------------------ invocation frame
\* A facade method is entered: its invocation-local logs start empty and
\* the locals of the invocation before it are gone.
Idle == pc = "idle"

\* n is the length of the *args tuple (0 for a method without one).
Enter(name, n, args) == op' = [name |-> name, n |-> n, args |-> args]

\* One Spec built and executed once with outcome res; the method ends with r.
OneCall(spec, res, r) ==
    /\ built' = <<spec>>
    /\ calls' = ExecuteApi(<<>>, spec)
    /\ result' = res
    /\ ret' = r
    /\ cookies' \in SetCookie(cookies)
    /\ exports' = <<>>
    /\ init_result' = None
    /\ token_result' = None
    /\ UNCHANGED <<pc, tickets>>

\* The method ends with r before any Spec is built.
NoCall(r) ==
    /\ built' = <<>>
    /\ calls' = <<>>
    /\ result' = Pending
    /\ ret' = r
    /\ exports' = <<>>
    /\ init_result' = None
    /\ token_result' = None
    /\ UNCHANGED <<pc, cookies, tickets>>

\* ------------------------------------------------ py115.types
Task(t) == [task |-> t]
File(f) == [file |-> f]
DownloadTicket_create(res, headers) ==
    [url |-> res.url, headers |-> headers]
UploadTicket_create(init, token) ==
    [init_result |-> init, token_result |-> token]

ClearFlags == {[name |-> "Done", value |-> 0], [name |-> "All", value |-> 1]}

\* int(x) of a size the remote reports as text
Sizes == {[text |-> "100", n |-> 100], [text |-> "40", n |-> 40]}
ToInt(s) == s.n

\* ------------------------------------------------ OfflineService
\* OfflineService.add_url(*urls)
Offline_add_url ==
    \E urls \in ArgTuples :
        /\ Idle
        /\ Enter("Offline.add_url", Len(urls), [urls |-> urls])
        /\ IF Len(urls) = 0
           THEN NoCall(Return([list |-> <<>>]))
           ELSE \E res \in ExecOutcomes(
                        {[list |-> [i \in 1..Len(urls) |-> [url |-> urls[i]]]]}) :
                    OneCall([api |-> "offline.AddUrlsApi", urls |-> urls], res,
                            IF res.kind = "raise" THEN res
                            ELSE Return([list |->
                                     [i \in 1..Len(res.value.list) |->
                                         Task(res.value.list[i])]]))
        /\ UNCHANGED listVars

\* OfflineService.delete without the empty-tuple return of lines 67-68.
Offline_delete_always_calls ==
    \E task_ids \in ArgTuples :
        /\ Idle
        /\ Enter("Offline.delete", Len(task_ids), [ids |-> task_ids])
        /\ \E res \in ExecOutcomes({None}) :
               OneCall([api |-> "offline.DeleteApi", ids |-> task_ids],
                       res, Propagate(res, None))
        /\ UNCHANGED listVars

\* OfflineService.delete(*task_ids)
Offline_delete ==
    \E task_ids \in ArgTuples :
        /\ Idle
        /\ Enter("Offline.delete", Len(task_ids), [ids |-> task_ids])
        /\ IF Len(task_ids) = 0
           THEN NoCall(Return(None))
           ELSE \E res \in ExecOutcomes({None}) :
                    OneCall([api |-> "offline.DeleteApi", ids |-> task_ids],
                            res, Propagate(res, None))
        /\ UNCHANGED listVars

\* OfflineService.clear(flag)
Offline_clear ==
    \E flag \in ClearFlags :
        /\ Idle
        /\ Enter("Offline.clear", 0, [flag |-> flag.name])
        /\ \E res \in ExecOutcomes({None}) :
               OneCall([api |-> "offline.ClearApi", flag |-> flag.value],
                       res, Propagate(res, None))
        /\ UNCHANGED listVars

\* ------------------------------------------------ StorageService
\* Lines 102-107: the sizes of a space.GetApi payload as integers.
space_tuple(payload) ==
    IF payload # None
    THEN [tuple |-> <<ToInt(payload.all_total.size),
                      ToInt(payload.all_use.size)>>]
    ELSE [tuple |-> <<0, 0>>]

\* StorageService.space()
Storage_space ==
    /\ Idle
    /\ Enter("Storage.space", 0, None)
    /\ \E res \in ExecOutcomes(
              {None} \cup {[all_total |-> [size |-> t], all_use |-> [size |-> u]] :
                              t \in Sizes, u \in Sizes}) :
           OneCall([api |-> "space.GetApi"], res,
                   IF res.kind = "raise" THEN res
                   ELSE Return(space_tuple(res.value)))
    /\ UNCHANGED listVars

\* StorageService.move(target_dir_id, *file_ids)
Storage_move ==
    \E target_dir_id \in DirIds, file_ids \in ArgTuples :
        /\ Idle
        /\ Enter("Storage.move", Len(file_ids),
                 [target |-> target_dir_id, ids |-> file_ids])
        /\ IF Len(file_ids) = 0
           THEN NoCall(Return(None))
           ELSE \E res \in ExecOutcomes({None}) :
                    OneCall([api |-> "file.MoveApi", target |-> target_dir_id,
                             ids |-> file_ids], res, Propagate(res, None))
        /\ UNCHANGED listVars

\* StorageService.rename executing its Spec a second time.
Storage_rename_retry ==
    \E file_id \in Ids, new_name \in Names :
        /\ Idle
        /\ Enter("Storage.rename", 0, [id |-> file_id, name |-> new_name])
        /\ \E res \in ExecOutcomes({None}) :
               LET spec == [api |-> "file.RenameApi", id |-> file_id,
                            name |-> new_name]
               IN /\ built' = <<spec>>
                  /\ calls' = ExecuteApi(ExecuteApi(<<>>, spec), spec)
                  /\ result' = res
                  /\ ret' = Propagate(res, None)
                  /\ cookies' \in SetCookie(cookies)
                  /\ exports' = <<>>
                  /\ init_result' = None
                  /\ token_result' = None
                  /\ UNCHANGED <<pc, tickets>>
        /\ UNCHANGED listVars

\* StorageService.rename(file_id, new_name)
Storage_rename ==
    \E file_id \in Ids, new_name \in Names :
        /\ Idle
        /\ Enter("Storage.rename", 0, [id |-> file_id, name |-> new_name])
        /\ \E res \in ExecOutcomes({None}) :
               OneCall([api |-> "file.RenameApi", id |-> file_id,
                        name |-> new_name], res, Propagate(res, None))
        /\ UNCHANGED listVars

\* StorageService.delete(*file_ids)
Storage_delete ==
    \E file_ids \in ArgTuples :
        /\ Idle
        /\ Enter("Storage.delete", Len(file_ids), [ids |-> file_ids])
        /\ IF Len(file_ids) = 0
           THEN NoCall(Return(None))
           ELSE \E res \in ExecOutcomes({None}) :
                    OneCall([api |-> "file.DeleteApi", ids |-> file_ids],
                            res, Propagate(res, None))
        /\ UNCHANGED listVars

\* StorageService.make_dir(parent_id, name): result['pid'] = parent_id
\* fails on an absent payload.
Storage_make_dir ==
    \E parent_id \in DirIds, name \in Names :
        /\ Idle
        /\ Enter("Storage.make_dir", 0, [parent |-> parent_id, name |-> name])
        /\ \E res \in ExecOutcomes(
                  {None} \cup {[cid |-> c, name |-> name] : c \in Ids}) :
               OneCall([api |-> "dir.AddApi", parent |-> parent_id,
                        name |-> name], res,
                       IF res.kind = "raise" THEN res
                       ELSE IF res.value = None THEN Raise("TypeError")
                       ELSE Return(File(("pid" :> parent_id) @@ res.value)))
        /\ UNCHANGED listVars

\* ------------------------------------------------ request_download
\* The payloads file.DownloadApi can decode to: nothing, a record without
\* a url, or a record with one.
DownloadResults(pickcode) ==
    {None, [pickcode |-> pickcode]}
        \cup {[pickcode |-> pickcode, url |-> u] : u \in Urls}

HasUrl(payload) == "url" \in DOMAIN payload

\* Lines 184-194 with only the absent payload tested: result['url'] then
\* fails on a payload without a url.
download_ticket_none_only(payload, jar) ==
    IF payload = None
    THEN [ret |-> Return(None), exports |-> <<>>, issued |-> {}]
    ELSE IF ~HasUrl(payload)
    THEN [ret |-> Raise("KeyError"), exports |-> <<>>, issued |-> {}]
    ELSE LET cks == export_cookies(jar, payload.url)
             headers == ("User-Agent" :> UserAgent)
                            @@ ("Cookie" :> JoinCookies(cks))
             t == DownloadTicket_create(payload, headers)
         IN [ret |-> Return([ticket |-> t]),
             exports |-> <<payload.url>>,
             issued |-> {t}]

\* Lines 184-194: what request_download does with the decoded payload under
\* the jar the call left behind.
download_ticket(payload, jar) ==
    IF payload = None \/ ~HasUrl(payload)
    THEN [ret |-> Return(None), exports |-> <<>>, issued |-> {}]
    ELSE LET cks == export_cookies(jar, payload.url)
             headers == ("User-Agent" :> UserAgent)
                            @@ ("Cookie" :> JoinCookies(cks))
             t == DownloadTicket_create(payload, headers)
         IN [ret |-> Return([ticket |-> t]),
             exports |-> <<payload.url>>,
             issued |-> {t}]

\* request_download with tickets whose Cookie header is read from the
\* session's jar itself: every ticket issued before follows the jar.
request_download_live ==
    \E pickcode \in Ids :
        /\ Idle
        /\ Enter("Storage.request_download", 0, [pickcode |-> pickcode])
        /\ built' = <<[api |-> "file.DownloadApi", pickcode |-> pickcode]>>
        /\ calls' = ExecuteApi(<<>>, [api |-> "file.DownloadApi",
                                      pickcode |-> pickcode])
        /\ cookies' \in SetCookie(cookies)
        /\ \E res \in ExecOutcomes(DownloadResults(pickcode)) :
              /\ result' = res
              /\ LET live == {[t EXCEPT !.headers["Cookie"] =
                                  JoinCookies(export_cookies(cookies', t.url))]
                              : t \in tickets}
                 IN IF res.kind = "raise"
                    THEN /\ ret' = res
                         /\ exports' = <<>>
                         /\ tickets' = live
                    ELSE LET d == download_ticket(res.value, cookies')
                         IN /\ ret' = d.ret
                            /\ exports' = d.exports
                            /\ tickets' = live \cup d.issued
        /\ init_result' = None
        /\ token_result' = None
        /\ UNCHANGED pc
        /\ UNCHANGED listVars

\* StorageService.request_download(pickcode)
request_download ==
    \E pickcode \in Ids :
        /\ Idle
        /\ Enter("Storage.request_download", 0, [pickcode |-> pickcode])
        /\ built' = <<[api |-> "file.DownloadApi", pickcode |-> pickcode]>>
        /\ calls' = ExecuteApi(<<>>, [api |-> "file.DownloadApi",
                                      pickcode |-> pickcode])
        /\ cookies' \in SetCookie(cookies)
        /\ \E res \in ExecOutcomes(DownloadResults(pickcode)) :
              /\ result' = res
              /\ IF res.kind = "raise"
                 THEN /\ ret' = res
                      /\ exports' = <<>>
                      /\ UNCHANGED tickets
                 ELSE LET d == download_ticket(res.value, cookies')
                      IN /\ ret' = d.ret
                         /\ exports' = d.exports
                         /\ tickets' = tickets \cup d.issued
        /\ init_result' = None
        /\ token_result' = None
        /\ UNCHANGED pc
        /\ UNCHANGED listVars

\* ------------------------------------------------ upload negotiation
Streams == [readable : BOOLEAN, seekable : BOOLEAN]
InitResults == [done : BOOLEAN, pickcode : {1}]
TokenResults == [AccessKeyId : {"k1"}, SecurityToken : {"s1", "s2"}]

\* Line 230 with the seekable() test left out.
StreamUsable_readable(data_io) == data_io.readable

\* Line 230: the stream can be hashed and re-read.
StreamUsable(data_io) == data_io.readable /\ data_io.seekable

\* Line 239 with the token requested whatever the pre-check says.
NeedToken_always(init) == TRUE

\* Line 239 with the token never requested.
NeedToken_never(init) == FALSE

\* Line 239: the pre-check did not find the content on the remote.
NeedToken(init) == ~init.done

\* Lines 230-231: request_upload_data is entered with its arguments.
begin_upload(data_io) ==
    /\ built' = <<>>
    /\ calls' = <<>>
    /\ result' = Pending
    /\ exports' = <<>>
    /\ init_result' = None
    /\ token_result' = None
    /\ IF StreamUsable(data_io)
       THEN ret' = Pending /\ pc' = "init"
       ELSE ret' = Return(None) /\ pc' = "idle"
    /\ UNCHANGED <<cookies, tickets>>

\* StorageService.request_upload_data(dir_id, save_name, data_io)
request_upload_data ==
    \E dir_id \in DirIds, save_name \in Names, data_io \in Streams :
        /\ Idle
        /\ Enter("Storage.request_upload_data", 0,
                 [dir_id |-> dir_id, save_name |-> save_name,
                  data_io |-> data_io])
        /\ begin_upload(data_io)
        /\ UNCHANGED listVars

\* Lines 232-239: the pre-check call and the branch on its result.
UploadInit ==
    /\ pc = "init"
    /\ LET spec == [api |-> "upload.InitApi",
                    target_id |-> "U_1_" \o op.args.dir_id,
                    file_name |-> op.args.save_name]
       IN /\ built' = Append(built, spec)
          /\ calls' = ExecuteApi(calls, spec)
    /\ cookies' \in SetCookie(cookies)
    /\ \E res \in ExecOutcomes(InitResults) :
          /\ result' = res
          /\ IF res.kind = "raise"
             THEN /\ ret' = res
                  /\ pc' = "idle"
                  /\ UNCHANGED <<init_result, token_result>>
             ELSE /\ init_result' = res.value
                  /\ token_result' = None
                  /\ pc' = IF NeedToken(res.value) THEN "token" ELSE "create"
                  /\ UNCHANGED ret
    /\ UNCHANGED <<op, exports, tickets>>
    /\ UNCHANGED listVars

\* Line 240 inside a try/except that goes on without a token.
UploadToken_swallow ==
    /\ pc = "token"
    /\ built' = Append(built, [api |-> "upload.TokenApi"])
    /\ calls' = ExecuteApi(calls, [api |-> "upload.TokenApi"])
    /\ cookies' \in SetCookie(cookies)
    /\ \E res \in ExecOutcomes(TokenResults) :
          /\ result' = res
          /\ token_result' = IF res.kind = "raise" THEN None ELSE res.value
          /\ pc' = "create"
          /\ UNCHANGED ret
    /\ UNCHANGED <<op, init_result, exports, tickets>>
    /\ UNCHANGED listVars

\* Line 240: the token call.
UploadToken ==
    /\ pc = "token"
    /\ built' = Append(built, [api |-> "upload.TokenApi"])
    /\ calls' = ExecuteApi(calls, [api |-> "upload.TokenApi"])
    /\ cookies' \in SetCookie(cookies)
    /\ \E res \in ExecOutcomes(TokenResults) :
          /\ result' = res
          /\ IF res.kind = "raise"
             THEN /\ ret' = res
                  /\ pc' = "idle"
                  /\ UNCHANGED token_result
             ELSE /\ token_result' = res.value
                  /\ pc' = "create"
                  /\ UNCHANGED ret
    /\ UNCHANGED <<op, init_result, exports, tickets>>
    /\ UNCHANGED listVars

\* Line 241: the ticket is built from both results and returned.
UploadCreate ==
    /\ pc = "create"
    /\ ret' = Return([ticket |-> UploadTicket_create(init_result, token_result)])
    /\ pc' = "idle"
    /\ UNCHANGED <<op, built, calls, result, init_result, token_result,
                   cookies, exports, tickets>>
    /\ UNCHANGED listVars

\* The local file system as request_upload finds it.
Paths == {<<"tmp", "x.bin">>, <<"y.bin">>}
Entries == {"missing", "file", "fifo", "dir"}
\* The first component of the path for its last.
basename_first(path) == path[1]

basename(path) == path[Len(path)]

\* The stream open(file_path, 'rb') gives for a regular file or a fifo.
OpenRb(entry) == [readable |-> TRUE, seekable |-> entry = "file"]

\* StorageService.request_upload(dir_id, file_path)
request_upload ==
    \E dir_id \in DirIds, file_path \in Paths, entry \in Entries :
        /\ Idle
        /\ Enter("Storage.request_upload", 0,
                 [dir_id |-> dir_id, save_name |-> basename(file_path),
                  file_path |-> file_path, entry |-> entry,
                  data_io |-> IF entry \in {"file", "fifo"}
                              THEN OpenRb(entry) ELSE None])
        /\ IF entry = "missing"
           THEN NoCall(Return(None))
           ELSE IF entry = "dir"
           THEN NoCall(Raise("IsADirectoryError"))
           ELSE begin_upload(OpenRb(entry))
        /\ UNCHANGED listVars

\* ------------------------------------------------ the facade machine
InitFacade ==
    /\ op = [name |-> "none", n |-> 0, args |-> None]
    /\ built = <<>>
    /\ calls = <<>>
    /\ result = Pending
    /\ ret = Pending
    /\ pc = "idle"
    /\ init_result = None
    /\ token_result = None
    /\ cookies = InitCookies
    /\ exports = <<>>
    /\ tickets = {}

InitListIdle ==
    /\ remote = [file |-> <<>>, task |-> <<>>]
    /\ pageSize = 1
    /\ gen = [g \in Gens |-> None]
    /\ hist = [g \in Gens |-> NoHist]

Init == InitFacade /\ InitListIdle

Next ==
    \/ Offline_add_url
    \/ Offline_delete
    \/ Offline_clear
    \/ Storage_space
    \/ Storage_move
    \/ Storage_rename
    \/ Storage_delete
    \/ Storage_make_dir
    \/ request_download
    \/ request_upload
    \/ request_upload_data
    \/ UploadInit
    \/ UploadToken
    \/ UploadCreate

Spec == Init /\ [][Next]_vars

\* ------------------------------------------------ the remote's listings
\* A remote collection is a sequence of distinct record ids in server order.
Ceil(a, b) == (a + b - 1) \div b

\* What file.ListApi / offline.ListApi decode to when the server echoes the
\* requested position: the page at that position, the position, and the
\* total the loop tests (count for files, page_count for tasks).
FilePage(coll, size, offset) ==
    [items |-> SubSeq(coll, offset + 1, Min(offset + size, Len(coll))),
     pos |-> offset,
     total |-> Len(coll)]

TaskPage(coll, size, page) ==
    [items |-> SubSeq(coll, (page - 1) * size + 1, Min(page * size, Len(coll))),
     pos |-> page,
     total |-> Ceil(Len(coll), size)]

ServerPage(kind, coll, size, cursor) ==
    IF kind = "file" THEN FilePage(coll, size, cursor)
    ELSE TaskPage(coll, size, cursor)

\* The index in server order just before the first record of that page.
PageStart(kind, size, cursor) ==
    IF kind = "file" THEN cursor ELSE (cursor - 1) * size

\* An id no record of the collection has.
FreshId(coll) ==
    IF coll = <<>> THEN 1
    ELSE 1 + CHOOSE m \in {coll[i] : i \in 1..Len(coll)} :
                 \A j \in 1..Len(coll) : coll[j] <= m

\* The remote gains a record, at the end or at the front of server order.
Remote_append(kind) ==
    /\ Len(remote[kind]) < MaxColl
    /\ remote' = [remote EXCEPT ![kind] = Append(@, FreshId(@))]
    /\ UNCHANGED <<pageSize, gen, hist>>
    /\ UNCHANGED facadeVars

Remote_prepend(kind) ==
    /\ Len(remote[kind]) < MaxColl
    /\ remote' = [remote EXCEPT ![kind] = <<FreshId(@)>> \o @]
    /\ UNCHANGED <<pageSize, gen, hist>>
    /\ UNCHANGED facadeVars

\* ------------------------------------------------ the two list() generators
\* offline.ListApi() starts at page 1, file.ListApi(dir_id) at offset 0.
FirstPosition(kind) == IF kind = "task" THEN 1 ELSE 0

\* Line 123 counting one record per page instead of len(result['files']).
file_next_offset_plus_one(res) == res.pos + 1

\* Line 123 leaving out the page's length.
file_next_offset_stuck(res) == res.pos

\* Line 123: next_offset = result['offset'] + len(result['files'])
file_next_offset(res) == res.pos + Len(res.items)

\* Line 124 stopping one record early.
file_more_off_by_one(res) == ~(file_next_offset(res) + 1 >= res.total)

\* Line 124: the file listing goes on unless next_offset >= result['count'].
\* The test of line 124 made on the reported offset alone.
file_more_by_offset(res) == res.pos < res.total

file_more(res) == ~(file_next_offset(res) >= res.total)

\* Line 41 stepping over a page.
task_next_page_skip(res) == res.pos + 2

\* Line 41: spec.set_page(page + 1)
task_next_page(res) == res.pos + 1

\* Line 40: the task listing goes on if page < page_count.
\* The test of line 40 with <= for <.
task_more_le(res) == res.pos <= res.total

task_more(res) == res.pos < res.total

\* Lines 38 and 122: the object yielded for one record.
Yielded(kind, x) == IF kind = "task" THEN Task(x) ELSE File(x)

Active(g) == gen[g] # None

\* list() over one Spec that the service keeps and hands to every
\* generator: a new enumeration starts where another one stands.
ListCall_shared(g, kind) ==
    /\ gen[g] = None
    /\ LET others == {h \in Gens : Active(h) /\ gen[h].kind = kind}
           start == IF others = {}
                    THEN FirstPosition(kind)
                    ELSE gen[CHOOSE h \in others : TRUE].cursor
       IN gen' = [gen EXCEPT ![g] =
                     [kind |-> kind, st |-> "fetch", cursor |-> start,
                      res |-> None, idx |-> 0]]
    /\ hist' = [hist EXCEPT ![g] = NoHist]
    /\ UNCHANGED <<remote, pageSize>>
    /\ UNCHANGED facadeVars

\* list() is called: a generator with its own Spec at the first position.
ListCall(g, kind) ==
    /\ gen[g] = None
    /\ gen' = [gen EXCEPT ![g] =
                  [kind |-> kind, st |-> "fetch", cursor |-> FirstPosition(kind),
                   res |-> None, idx |-> 0]]
    /\ hist' = [hist EXCEPT ![g] = NoHist]
    /\ UNCHANGED <<remote, pageSize>>
    /\ UNCHANGED facadeVars

\* Lines 36 and 120: result = self._client.execute_api(spec), answered with
\* one of the responses or failing.
FetchFrom(g, responses) ==
    /\ Active(g)
    /\ gen[g].st = "fetch"
    /\ \/ \E r \in responses :
             gen' = [gen EXCEPT ![g].res = r, ![g].idx = 0, ![g].st = "page"]
       \/ gen' = [gen EXCEPT ![g].st = "raised"]

\* The observer's record of that call.
RecordFetch(g) ==
    LET coll == remote[gen[g].kind]
        start == PageStart(gen[g].kind, pageSize, gen[g].cursor)
    IN hist' = [hist EXCEPT
           ![g].reqs = Append(@, gen[g].cursor),
           ![g].fetched =
               IF gen'[g].st = "page"
               THEN @ \o [i \in 1..Len(gen'[g].res.items) |-> start + i]
               ELSE @,
           ![g].seen = TRUE,
           ![g].first = IF hist[g].seen THEN @ ELSE coll,
           ![g].last = coll]

Fetch(g) ==
    /\ FetchFrom(g, {ServerPage(gen[g].kind, remote[gen[g].kind], pageSize,
                                gen[g].cursor)})
    /\ RecordFetch(g)
    /\ UNCHANGED <<remote, pageSize>>
    /\ UNCHANGED facadeVars

\* Lines 37-38 and 121-122: the next item of the page is yielded.
YieldNext(g) ==
    /\ Active(g)
    /\ gen[g].st = "page"
    /\ gen[g].idx < Len(gen[g].res.items)
    /\ gen' = [gen EXCEPT ![g].idx = @ + 1]

YieldItem(g) ==
    /\ YieldNext(g)
    /\ hist' = [hist EXCEPT ![g].out =
                   Append(@, Yielded(gen[g].kind,
                                     gen[g].res.items[gen[g].idx + 1]))]
    /\ UNCHANGED <<remote, pageSize>>
    /\ UNCHANGED facadeVars

\* The loop of lines 35-43 and 119-127 moving on to the next request while
\* items of the page in hand are still to be yielded (a prefetch).
Advance_eager(g) ==
    /\ Active(g)
    /\ gen[g].st = "page"
    /\ LET res == gen[g].res
       IN IF gen[g].kind = "task"
          THEN IF task_more(res)
               THEN gen' = [gen EXCEPT ![g].cursor = task_next_page(res),
                                       ![g].st = "fetch"]
               ELSE gen' = [gen EXCEPT ![g].st = "done"]
          ELSE IF file_more(res)
               THEN gen' = [gen EXCEPT ![g].cursor = file_next_offset(res),
                                       ![g].st = "fetch"]
               ELSE gen' = [gen EXCEPT ![g].st = "done"]
    /\ UNCHANGED <<remote, pageSize, hist>>
    /\ UNCHANGED facadeVars

\* Lines 39-43 and 123-127: the page is used up; the Spec moves on or the
\* generator ends.
Advance(g) ==
    /\ Active(g)
    /\ gen[g].st = "page"
    /\ gen[g].idx = Len(gen[g].res.items)
    /\ LET res == gen[g].res
       IN IF gen[g].kind = "task"
          THEN IF task_more(res)
               THEN gen' = [gen EXCEPT ![g].cursor = task_next_page(res),
                                       ![g].st = "fetch"]
               ELSE gen' = [gen EXCEPT ![g].st = "done"]
          ELSE IF file_more(res)
               THEN gen' = [gen EXCEPT ![g].cursor = file_next_offset(res),
                                       ![g].st = "fetch"]
               ELSE gen' = [gen EXCEPT ![g].st = "done"]
    /\ UNCHANGED <<remote, pageSize, hist>>
    /\ UNCHANGED facadeVars

\* The caller drops a generator that has ended.
Drop(g) ==
    /\ Active(g)
    /\ gen[g].st \in {"done", "raised"}
    /\ gen' = [gen EXCEPT ![g] = None]
    /\ hist' = [hist EXCEPT ![g] = NoHist]
    /\ UNCHANGED <<remote, pageSize>>
    /\ UNCHANGED facadeVars

\* The remote's collections at the start: records 1..n in server order.
InitColls == {[i \in 1..n |-> i] : n \in 0..MaxColl}

InitList ==
    /\ InitFacade
    /\ remote \in [file : InitColls, task : InitColls]
    /\ pageSize \in 1..MaxPage
    /\ gen = [g \in Gens |-> None]
    /\ hist = [g \in Gens |-> NoHist]

\* One enumeration at a time, against a remote that grows.
NextList ==
    \/ \E kind \in Kinds : ListCall("g1", kind)
    \/ Fetch("g1")
    \/ YieldItem("g1")
    \/ Advance("g1")
    \/ Drop("g1")
    \/ \E kind \in Kinds : Remote_append(kind)
    \/ \E kind \in Kinds : Remote_prepend(kind)

SpecList == InitList /\ [][NextList]_vars

\* ------------------------------------------------ any remote
\* A remote that answers a list call with any page, reported position and
\* reported total, but never reports a smaller total than in its previous
\* answer to the same enumeration.
AnyPages == {[i \in 1..n |-> i] : n \in 0..MaxPage}
AnyResponses == [items : AnyPages, pos : 0..MaxColl, total : 0..MaxColl]

MonotoneResponses(g) ==
    {r \in AnyResponses : gen[g].res = None \/ r.total >= gen[g].res.total}

MonoFetch(g) ==
    /\ FetchFrom(g, MonotoneResponses(g))
    /\ UNCHANGED <<remote, pageSize, hist>>
    /\ UNCHANGED facadeVars

\* The item is yielded to a consumer that keeps no record of it.
MonoYield(g) ==
    /\ YieldNext(g)
    /\ UNCHANGED <<remote, pageSize, hist>>
    /\ UNCHANGED facadeVars

NextMono ==
    \/ \E kind \in Kinds : ListCall("g1", kind)
    \/ MonoFetch("g1")
    \/ MonoYield("g1")
    \/ Advance("g1")

\* The consumer keeps advancing the sequence until it ends.
SpecMono ==
    /\ Init
    /\ [][NextMono]_vars
    /\ WF_vars(MonoFetch("g1"))
    /\ WF_vars(MonoYield("g1"))
    /\ WF_vars(Advance("g1"))

\* ------------------------------------------------ two enumerations
\* Two generators of the same service advanced in any interleaving, each
\* dropped and started again at will, against a remote that stays as it is.
NextTwo ==
    \E g \in Gens :
        \/ \E kind \in Kinds : ListCall(g, kind)
        \/ Fetch(g)
        \/ YieldItem(g)
        \/ Advance(g)
        \/ Drop(g)

SpecTwo == InitList /\ [][NextTwo]_vars

\* ------------------------------------------------ any server
\* A server that answers every request with any response at all. The
\* observer logs the positions requested for as long as the server has
\* behaved as an echo server of constant total (each response reports the
\* position requested and the total of the first response), and gives up
\* its log at the first response that does not.
MaxReqs == MaxColl + 1

RecordAny(g) ==
    LET req == gen[g].cursor
        r == gen'[g].res
        ok == /\ gen'[g].st = "page"
              /\ hist[g].echoed
              /\ r.pos = req
              /\ hist[g].reqs = <<>> \/ r.total = hist[g].total0
    IN hist' = [hist EXCEPT ![g] =
                   IF ok
                   THEN [@ EXCEPT !.reqs = Append(@, req), !.total0 = r.total]
                   ELSE [NoHist EXCEPT !.echoed = FALSE]]

AnyFetch(g) ==
    /\ Len(hist[g].reqs) < MaxReqs
    /\ FetchFrom(g, AnyResponses)
    /\ RecordAny(g)
    /\ UNCHANGED <<remote, pageSize>>
    /\ UNCHANGED facadeVars

NextAny ==
    \/ \E kind \in Kinds : ListCall("g1", kind)
    \/ AnyFetch("g1")
    \/ MonoYield("g1")
    \/ Advance("g1")
    \/ Drop("g1")

SpecAny == Init /\ [][NextAny]_vars

\* ------------------------------------------------ one file listing
\* A directory of N files behind a server of page size P that echoes the
\* requested offset and reports the constant count N: the small cases and
\* the 125 files in pages of 50.
PagingCases ==
    {<<n, p>> : n \in 0..MaxColl, p \in 1..MaxPage} \cup {<<125, 50>>}

InitPaging ==
    /\ InitFacade
    /\ \E c \in PagingCases :
          /\ remote = [file |-> [i \in 1..c[1] |-> i], task |-> <<>>]
          /\ pageSize = c[2]
    /\ gen = [g \in Gens |-> None]
    /\ hist = [g \in Gens |-> NoHist]

NextPaging ==
    \/ ListCall("g1", "file")
    \/ Fetch("g1")
    \/ YieldItem("g1")
    \/ Advance("g1")

SpecPaging == InitPaging /\ [][NextPaging]_vars

\* ================================================================ claims
BulkOps == {"Offline.add_url", "Offline.delete", "Storage.move",
            "Storage.delete"}
UploadOps == {"Storage.request_upload", "Storage.request_upload_data"}

\* The api names of a call log, in issue order.
Apis(log) == [i \in 1..Len(log) |-> log[i].api]

\* The invocation has ended (returned or raised).
Finished == pc = "idle" /\ op.name # "none"

\* The negotiation's pre-check answered, with this value of done.
PreCheckSaid(done) ==
    /\ op.name \in UploadOps
    /\ init_result # None
    /\ init_result.done = done

\* C1: when the pre-check (InitApi) returns done = true, the negotiation
\* never executes TokenApi, token_result stays absent, and the ticket it
\* returns is built with the absent token result.
C1_DoneSkipsToken ==
    PreCheckSaid(TRUE) =>
        /\ Apis(calls) = <<"upload.InitApi">>
        /\ pc # "token"
        /\ token_result = None
        /\ ret.kind = "return" =>
              /\ ret.value = [ticket |-> UploadTicket_create(init_result, None)]
              /\ ret.value.ticket.token_result = None

C1_Witness ==
    /\ PreCheckSaid(TRUE)
    /\ Finished
    /\ ret.kind = "return"
    /\ ret.value.ticket.init_result.done

\* C2: when the pre-check returns done = false, TokenApi is executed
\* exactly once, as the second call after InitApi, and the ticket returned
\* is built from the pre-check result and the token result.
C2_NotDoneCallsTokenOnce ==
    PreCheckSaid(FALSE) =>
        /\ Len(calls) >= 1 /\ calls[1].api = "upload.InitApi"
        /\ Cardinality({i \in 1..Len(calls) : calls[i].api = "upload.TokenApi"})
              = (IF pc = "token" THEN 0 ELSE 1)
        /\ pc # "token" => Apis(calls) = <<"upload.InitApi", "upload.TokenApi">>
        /\ ret.kind = "return" =>
              /\ token_result \in TokenResults
              /\ ret.value =
                    [ticket |-> UploadTicket_create(init_result, token_result)]

C2_Witness ==
    /\ PreCheckSaid(FALSE)
    /\ Finished
    /\ ret.kind = "return"
    /\ ret.value.ticket.token_result \in TokenResults
    /\ Len(calls) = 2

\* request_upload_data was handed a stream that is not seekable.
NonSeekableUpload ==
    /\ op.name = "Storage.request_upload_data"
    /\ ~op.args.data_io.seekable

C8_EmptyBulkIsNoOp ==
    op.name \in BulkOps =>
        IF op.n = 0
        THEN /\ calls = <<>>
             /\ built = <<>>
             /\ ret.kind = "return"
        ELSE Len(calls) = 1

C8_Witness ==
    /\ op.name = "Offline.delete"
    /\ op.n = 0
    /\ calls = <<>>
    /\ ret = Return(None)

\* C9: when request_download's call succeeds with an absent payload or one
\* without a url, it returns None, exports no cookies and issues no ticket.
C9_NoUrlReturnsNone ==
    [][(/\ op'.name = "Storage.request_download"
        /\ result'.kind = "return"
        /\ (result'.value = None \/ ~HasUrl(result'.value)))
       => /\ ret' = Return(None)
          /\ exports' = <<>>
          /\ tickets' = tickets]_vars

C9_Witness ==
    /\ op.name = "Storage.request_download"
    /\ result.kind = "return"
    /\ result.value # None
    /\ ~HasUrl(result.value)
    /\ ret = Return(None)
    /\ exports = <<>>

\* The invocation's input is not one of the documented short-circuits: a
\* bulk operation got ids, an upload got a usable stream.
NonEmptyInput ==
    /\ op.name \in BulkOps => op.n >= 1
    /\ op.name \in UploadOps =>
          /\ op.args.data_io # None
          /\ op.args.data_io.readable /\ op.args.data_io.seekable

\* C10 as stated: every facade operation that is not a listing builds one
\* Spec and issues exactly one execute_api call per invocation with
\* non-empty input.
C10_Original_OneCallEach ==
    (Finished /\ NonEmptyInput) => Len(built) = 1 /\ Len(calls) = 1

\* C10 as amended: every such operation other than the upload request builds
\* one Spec and issues exactly one execute_api call; request_upload and
\* request_upload_data execute each Spec they build once, and build one
\* (InitApi) unless the pre-check answered done = false, and then two
\* (InitApi, TokenApi).
C10_OneCallExceptUpload ==
    (Finished /\ NonEmptyInput) =>
        IF op.name \in UploadOps
        THEN /\ built = calls
             /\ Len(calls) = (IF init_result # None /\ ~init_result.done
                              THEN 2 ELSE 1)
        ELSE Len(built) = 1 /\ Len(calls) = 1

C10_Witness ==
    /\ Finished
    /\ NonEmptyInput
    /\ op.name = "Storage.request_upload"
    /\ Apis(calls) = <<"upload.InitApi", "upload.TokenApi">>
    /\ Apis(built) = Apis(calls)

\* ------------------------------------------------ claims on the listings
\* The enumeration ran to its end (the generator is exhausted).
Complete(g) == Active(g) /\ gen[g].st = "done"

NoDup(seq) ==
    \A i, j \in 1..Len(seq) : i # j => seq[i] # seq[j]

IsPrefix(a, b) == Len(a) <= Len(b) /\ a = SubSeq(b, 1, Len(a))

\* The objects a listing of that collection yields, in server order.
Listing(kind, coll) == [i \in 1..Len(coll) |-> Yielded(kind, coll[i])]

\* C4 as stated: a complete traversal against a remote that does not
\* shrink yields as many items as the remote held at the first page fetch,
\* and no item index is fetched twice.
C4_Original_CountAtFirstFetch ==
    \A g \in Gens :
        Complete(g) =>
            /\ Len(hist[g].out) = Len(hist[g].first)
            /\ NoDup(hist[g].fetched)

\* C4 as amended: a complete traversal against a remote that does not
\* shrink yields as many items as the remote held at the last page fetch,
\* which is at least the number held at the first; no item index is
\* fetched twice.
C4_CountAtLastFetch ==
    \A g \in Gens :
        Complete(g) =>
            /\ Len(hist[g].out) = Len(hist[g].last)
            /\ Len(hist[g].out) >= Len(hist[g].first)
            /\ NoDup(hist[g].fetched)

C4_Witness ==
    /\ Complete("g1")
    /\ Len(hist["g1"].reqs) >= 2
    /\ Len(hist["g1"].last) > Len(hist["g1"].first)
    /\ Len(hist["g1"].out) = Len(hist["g1"].last)

\* C5 as stated: a complete listing has yielded each remote record exactly
\* once and in server order, also when records were added between its page
\* fetches.
C5_Original_ExactlyOnceUnderGrowth ==
    \A g \in Gens :
        Complete(g) => hist[g].out = Listing(gen[g].kind, hist[g].last)

\* C5 as amended: a complete listing has yielded each remote record exactly
\* once and in server order when the records added between its page fetches
\* were all added at the end of server order (the collection at the first
\* fetch is a prefix of the one at the last fetch).
C5_ExactlyOnceUnderAppends ==
    \A g \in Gens :
        (Complete(g) /\ IsPrefix(hist[g].first, hist[g].last)) =>
            hist[g].out = Listing(gen[g].kind, hist[g].last)

C5_Witness ==
    /\ Complete("g1")
    /\ IsPrefix(hist["g1"].first, hist["g1"].last)
    /\ Len(hist["g1"].first) < Len(hist["g1"].last)
    /\ hist["g1"].out = Listing(gen["g1"].kind, hist["g1"].last)

\* The offsets 0, P, 2P, ... of k pages.
Offsets(k, size) == [i \in 1..k |-> (i - 1) * size]

\* C7 as stated: listing N files in pages of P takes ceil(N/P) calls, at
\* offsets 0, P, 2P, ..., and yields the N File objects in server order.
C7_Original_CeilCalls ==
    Complete("g1") =>
        /\ hist["g1"].reqs = Offsets(Ceil(Len(remote.file), pageSize), pageSize)
        /\ hist["g1"].out = Listing("file", remote.file)

\* C7 as amended: listing N files in pages of P takes ceil(N/P) calls, and
\* one call when N = 0, at offsets 0, P, 2P, ..., and yields the N File
\* objects in server order; 125 files in pages of 50 take the 3 calls at
\* offsets 0, 50, 100.
C7_CeilCallsAtLeastOne ==
    Complete("g1") =>
        /\ hist["g1"].reqs =
              Offsets(IF Len(remote.file) = 0 THEN 1
                      ELSE Ceil(Len(remote.file), pageSize), pageSize)
        /\ hist["g1"].out = Listing("file", remote.file)
        /\ (Len(remote.file) = 125 /\ pageSize = 50) =>
              /\ hist["g1"].reqs = <<0, 50, 100>>
              /\ Len(hist["g1"].out) = 125

C7_Witness ==
    /\ Complete("g1")
    /\ Len(remote.file) = 125
    /\ pageSize = 50
    /\ hist["g1"].reqs = <<0, 50, 100>>
    /\ Len(hist["g1"].out) = 125

\* The generator has ended: exhausted, or left by a failed call.
Ended(g) == Active(g) /\ gen[g].st \in {"done", "raised"}

\* The response in hand ends the enumeration or moves it forward: the
\* position it leads to lies beyond the position that was requested.
Moving(g) ==
    (Active(g) /\ gen[g].st = "page") =>
        LET r == gen[g].res
        IN IF gen[g].kind = "task"
           THEN r.pos >= r.total \/ r.pos + 1 > gen[g].cursor
           ELSE r.pos + Len(r.items) >= r.total
                    \/ r.pos + Len(r.items) > gen[g].cursor

\* C6 as stated: an enumeration that is fully consumed ends whenever the
\* totals the remote reports to it never decrease.
C6_Original_EndsIfTotalMonotone == Active("g1") ~> Ended("g1")

\* C6 as amended: an enumeration that is fully consumed ends whenever the
\* totals the remote reports to it never decrease and stay bounded, and
\* every response ends the enumeration or moves its position forward.
C6_EndsIfMoving == ([]Moving("g1")) => (Active("g1") ~> Ended("g1"))

C6_Witness ==
    /\ Complete("g1")
    /\ gen["g1"].cursor >= 2
    /\ gen["g1"].res.total >= 2

\* ------------------------------------------------ claims, continued
\* How many calls of the log went to that api.
CallsTo(api) == Cardinality({i \in 1..Len(calls) : calls[i].api = api})

\* C11: the negotiation executes each of its two endpoints at most once;
\* a failed pre-check ends it with that failure, before any token call and
\* without a ticket; a failed token call ends it with that failure and
\* without a ticket.
C11_FailuresPropagateNoRetry ==
    op.name \in UploadOps =>
        /\ CallsTo("upload.InitApi") <= 1
        /\ CallsTo("upload.TokenApi") <= 1
        /\ result.kind = "raise" =>
              /\ pc = "idle"
              /\ ret = result
              /\ result.value.error \in ExecErrors
              /\ Apis(calls) = IF init_result = None
                               THEN <<"upload.InitApi">>
                               ELSE <<"upload.InitApi", "upload.TokenApi">>

C11_Witness ==
    /\ op.name \in UploadOps
    /\ result.kind = "raise"
    /\ ret = Raise("RemoteProtocolError")
    /\ Apis(calls) = <<"upload.InitApi", "upload.TokenApi">>

\* The items fetched so far that the consumer has not been handed yet.
Unconsumed(g) == Len(hist[g].fetched) - Len(hist[g].out)

\* C12: the listing is lazy. Whenever a generator is about to issue a call
\* (or has ended), every item of every page fetched so far has been yielded;
\* while it holds a page, the only items not yet yielded are the rest of that
\* page. So the call for page k+1 comes only after the whole of page k was
\* consumed and the consumer asked for more, and the calls issued never
\* exceed one plus the pages fully consumed.
C12_FetchOnlyAfterPageConsumed ==
    \A g \in Gens :
        Active(g) =>
            /\ Unconsumed(g) =
                  IF gen[g].st = "page"
                  THEN Len(gen[g].res.items) - gen[g].idx
                  ELSE 0
            /\ gen[g].st = "page" /\ gen[g].idx < Len(gen[g].res.items) =>
                  ~ENABLED Fetch(g)

C12_Witness ==
    /\ Active("g1")
    /\ gen["g1"].st = "fetch"
    /\ Len(hist["g1"].reqs) = 1
    /\ Len(hist["g1"].out) >= 2

\* The generator has had a response and is past its page: about to issue
\* the next call, or ended.
PastPage(g) ==
    /\ Active(g)
    /\ gen[g].res # None
    /\ gen[g].st \in {"fetch", "done"}

\* The driver the claim describes: next position = position + number of
\* items of the page, going on iff that is below the total.
GenericNext(res) == res.pos + Len(res.items)

\* C13 as stated: both listings follow the generic driver, (page,
\* page_count) standing for (offset, count).
C13_Original_SameDriver ==
    \A g \in Gens :
        PastPage(g) =>
            /\ gen[g].st = "fetch" =>
                  /\ gen[g].cursor = GenericNext(gen[g].res)
                  /\ GenericNext(gen[g].res) < gen[g].res.total
            /\ gen[g].st = "done" =>
                  ~(GenericNext(gen[g].res) < gen[g].res.total)

\* C13: both listings take position and total from the last response, but
\* they are two drivers. The file listing goes on to offset + number of
\* files iff that is below count; the task listing goes on to page + 1 iff
\* the reported page itself is below page_count, whatever the number of
\* tasks on the page.
C13_DriversDiffer ==
    \A g \in Gens :
        PastPage(g) =>
            LET res == gen[g].res
                next == IF gen[g].kind = "task"
                        THEN res.pos + 1
                        ELSE res.pos + Len(res.items)
                more == IF gen[g].kind = "task"
                        THEN res.pos < res.total
                        ELSE next < res.total
            IN /\ gen[g].st = "fetch" => more /\ gen[g].cursor = next
               /\ gen[g].st = "done" => ~more

\* A task page of two tasks, page 1 of 2: the task listing goes on to page
\* 2 where the generic driver would stop at 1 + 2 >= 2.
C13_Witness ==
    /\ PastPage("g1")
    /\ gen["g1"].kind = "task"
    /\ gen["g1"].st = "fetch"
    /\ gen["g1"].cursor = 2
    /\ Len(gen["g1"].res.items) = 2
    /\ gen["g1"].res.total = 2

\* C17: whatever the server answers, the file listing asks next for the
\* reported offset of the last response plus the number of files in it,
\* asks only if that sum is below the reported count, and has ended as soon
\* as a page whose sum reaches the count is used up.
C17_FileCursorFromResponse ==
    \A g \in Gens :
        PastPage(g) /\ gen[g].kind = "file" =>
            LET res == gen[g].res
                sum == res.pos + Len(res.items)
            IN /\ gen[g].st = "fetch" =>
                     gen[g].cursor = sum /\ sum < res.total
               /\ gen[g].st = "done" => sum >= res.total
               /\ sum >= res.total => ~ENABLED AnyFetch(g)

\* A response that reports an offset the client did not ask for.
C17_Witness ==
    /\ PastPage("g1")
    /\ gen["g1"].kind = "file"
    /\ gen["g1"].st = "fetch"
    /\ gen["g1"].res.pos = 1
    /\ Len(gen["g1"].res.items) = 1
    /\ gen["g1"].cursor = 2
    /\ ~hist["g1"].echoed

\* C18: whatever the server answers, the task listing asks next for the
\* reported page plus one, asks only if the reported page is below the
\* reported page_count, and has ended once a page with page >= page_count
\* is used up. Against a server that echoes the page asked for and reports
\* the same page_count n >= 1 throughout, the pages asked for are 1, 2, ...
\* in that order, never beyond n, and all of 1..n when the listing ends.
C18_TaskPageFromResponse ==
    \A g \in Gens :
        Active(g) /\ gen[g].kind = "task" =>
            /\ PastPage(g) =>
                  LET res == gen[g].res
                  IN /\ gen[g].st = "fetch" =>
                           gen[g].cursor = res.pos + 1 /\ res.pos < res.total
                     /\ gen[g].st = "done" => res.pos >= res.total
                     /\ res.pos >= res.total => ~ENABLED AnyFetch(g)
            /\ hist[g].echoed /\ hist[g].total0 >= 1 =>
                  /\ hist[g].reqs = [i \in 1..Len(hist[g].reqs) |-> i]
                  /\ Len(hist[g].reqs) <= hist[g].total0
                  /\ gen[g].st = "done" => Len(hist[g].reqs) = hist[g].total0

C18_Witness ==
    /\ Active("g1")
    /\ gen["g1"].kind = "task"
    /\ gen["g1"].st = "done"
    /\ hist["g1"].echoed
    /\ hist["g1"].reqs = <<1, 2, 3>>

\* C14: a ticket is a snapshot. Its Cookie header is the join of the
\* cookies exported when request_download ran, and no later step, whatever
\* it does to the session's cookies, changes a ticket issued before.
C14_TicketsAreSnapshots ==
    [][/\ \A t \in tickets : t \in tickets'
       /\ \A t \in tickets' \ tickets :
             t.headers["Cookie"] =
                 JoinCookies(export_cookies(cookies', t.url))]_vars

\* A ticket that no longer agrees with the jar: a later call rotated the
\* session token.
C14_Witness ==
    /\ op.name = "Storage.rename"
    /\ Len(calls) = 1
    /\ \E t \in tickets :
          /\ t.url = "cdn"
          /\ t.headers["Cookie"] = "UID=v1; CID=v1"
          /\ cookies[1].value = "v2"

\* C15: a download response with a url gives a ticket whose headers are
\* exactly User-Agent, the client's user agent, and Cookie, the name=value
\* pairs of the cookies of that url in jar order joined with '; ' (the empty
\* string when the url has none); the one export made is for that url.
C15_HeadersOfTicket ==
    /\ op.name = "Storage.request_download"
    /\ result.kind = "return"
    /\ HasUrl(result.value)
    => /\ exports = <<result.value.url>>
       /\ ret.kind = "return"
       /\ ret.value.ticket.url = result.value.url
       /\ LET headers == ret.value.ticket.headers
          IN /\ DOMAIN headers = {"User-Agent", "Cookie"}
             /\ headers["User-Agent"] = UserAgent
             /\ headers["Cookie"] =
                   IF result.value.url = "cdn"
                   THEN "UID=" \o cookies[1].value \o "; CID="
                            \o cookies[2].value
                   ELSE ""

C15_Witness ==
    /\ op.name = "Storage.request_download"
    /\ ret.kind = "return"
    /\ ret.value # None
    /\ ret.value.ticket.headers["Cookie"] = "UID=v2; CID=v1"
    /\ exports = <<"cdn">>

\* The invocation in hand is a negotiation of request_upload_data for that
\* save name: its pre-check carries the name and the target directory, and
\* its outcome is the negotiation's (None for an unusable stream, the
\* failure of a call, or the ticket of the two results).
NegotiatedAs(name) ==
    /\ \A i \in 1..Len(calls) :
          calls[i].api = "upload.InitApi" =>
              /\ calls[i].file_name = name
              /\ calls[i].target_id = "U_1_" \o op.args.dir_id
    /\ pc = "idle" =>
          IF calls = <<>>
          THEN ret = Return(None)
          ELSE /\ calls[1].api = "upload.InitApi"
               /\ IF result.kind = "raise"
                  THEN ret = result
                  ELSE /\ ret = Return([ticket |->
                              UploadTicket_create(init_result, token_result)])
                       /\ Len(calls) = IF init_result.done THEN 1 ELSE 2

LastComponent(path) == path[Len(path)]

\* C19 as stated: a missing path gives None without a call; every other
\* path gives the negotiation under the path's base name.
C19_Original_ExistingPathNegotiates ==
    op.name = "Storage.request_upload" =>
        IF op.args.entry = "missing"
        THEN ret = Return(None) /\ calls = <<>> /\ pc = "idle"
        ELSE NegotiatedAs(LastComponent(op.args.file_path))

\* C19: a missing path gives None without a call; a path that exists and
\* opens for reading gives the negotiation under the path's base name; a
\* path that exists but does not open (a directory) gives the failure of
\* open(), without a call.
C19_OpenedPathNegotiates ==
    op.name = "Storage.request_upload" =>
        CASE op.args.entry = "missing" ->
                ret = Return(None) /\ calls = <<>> /\ pc = "idle"
          [] op.args.entry = "dir" ->
                ret = Raise("IsADirectoryError") /\ calls = <<>> /\ pc = "idle"
          [] OTHER ->
                NegotiatedAs(LastComponent(op.args.file_path))

C19_Witness ==
    /\ op.name = "Storage.request_upload"
    /\ op.args.entry = "file"
    /\ op.args.file_path = <<"tmp", "x.bin">>
    /\ pc = "idle"
    /\ Len(calls) = 2
    /\ calls[1].file_name = "x.bin"
    /\ ret.kind = "return"

\* The positions a listing of that kind asks for when enumerated alone
\* against the remote as it is: pages 1, 2, ... or offsets 0, P, 2P, ...
SoloRequests(kind, k) ==
    [i \in 1..k |-> IF kind = "task" THEN i ELSE (i - 1) * pageSize]

\* C16: every list() call has a Spec of its own. A generator that has made
\* no call yet stands at the initial position, however far other
\* enumerations went; and whatever the interleaving, the positions a
\* generator asked for and the items it yielded are those of the same
\* enumeration made alone.
C16_EnumerationsIndependent ==
    \A g \in Gens :
        Active(g) =>
            /\ hist[g].reqs = <<>> =>
                  gen[g].st = "fetch" /\ gen[g].cursor = FirstPosition(gen[g].kind)
            /\ hist[g].reqs = SoloRequests(gen[g].kind, Len(hist[g].reqs))
            /\ gen[g].st = "fetch" =>
                  gen[g].cursor =
                      SoloRequests(gen[g].kind, Len(hist[g].reqs) + 1)
                          [Len(hist[g].reqs) + 1]
            /\ IsPrefix(hist[g].out,
                        Listing(gen[g].kind, remote[gen[g].kind]))

\* A second enumeration of the files begun, and served its first page from
\* offset 0, after the first one had moved on to its second request.
C16_Witness ==
    /\ Active("g1") /\ Active("g2")
    /\ gen["g1"].kind = "file" /\ gen["g2"].kind = "file"
    /\ gen["g1"].st = "fetch"
    /\ gen["g1"].cursor > 0
    /\ gen["g2"].st = "page"
    /\ hist["g2"].reqs = <<0>>
    /\ Len(hist["g2"].out) = 1
====
